---- MODULE Spec2Model ----
(***************************************************************************)
(* osmxml: the OSM data model (src/src/elements.rs) and the pull parser    *)
(* read_xml (src/src/read.rs) that builds it from the events of an XML     *)
(* tokenizer (xml::reader::EventReader).                                   *)
(*                                                                         *)
(* A Rust String is a sequence of one-character strings, so that parsing   *)
(* an attribute value is a computation over its characters.  Element and   *)
(* attribute names, which the code only compares with literals, are TLA+   *)
(* strings.                                                                *)
(***************************************************************************)
EXTENDS Integers, Sequences, FiniteSets, TLC

VARIABLES
    src,        \* the tokenizer: [phase, open], open = names of the open elements
    consumed,   \* the events reader.next() has returned so far, in order
    pc,         \* where read_xml stands: the loop whose next() comes next
    res,        \* read_document's local Osm (the client's Osm under SpecOsm)
    cur,        \* the entity reader's local node / way / relation
    result,     \* what read_xml returned, once pc = "done"
    addLog      \* the calls of add_node / add_way / add_relation: [kind, arg, ret]

vars == <<src, consumed, pc, res, cur, result, addLog>>

\* ------------------------------------------------------------------ bounds

\* Events after which the tokenizer only closes what is open.
MaxEvents == 7
\* Direct calls of add_* a client makes under SpecOsm.
MaxCalls == 4

\* ----------------------------------------------------------------- strings

S_empty == << >>
S_1 == <<"1">>
S_2 == <<"2">>
S_10 == <<"1", "0">>
S_100 == <<"1", "0", "0">>
S_x == <<"x">>
S_A == <<"A">>
S_abc == <<"a", "b", "c">>
S_52_1 == <<"5", "2", ".", "1">>
S_48_2 == <<"4", "8", ".", "2">>
S_13_4 == <<"1", "3", ".", "4">>
S_name == <<"n", "a", "m", "e">>
S_highway == <<"h", "i", "g", "h", "w", "a", "y">>
S_residential == <<"r", "e", "s", "i", "d", "e", "n", "t", "i", "a", "l">>
S_way == <<"w", "a", "y">>
S_node == <<"n", "o", "d", "e">>
S_relation == <<"r", "e", "l", "a", "t", "i", "o", "n">>
S_area == <<"a", "r", "e", "a">>
S_outer == <<"o", "u", "t", "e", "r">>
S_id == <<"i", "d">>
S_lat == <<"l", "a", "t">>
S_lon == <<"l", "o", "n">>
S_ref == <<"r", "e", "f">>
S_type == <<"t", "y", "p", "e">>
S_role == <<"r", "o", "l", "e">>
S_k == <<"k">>
S_v == <<"v">>
S_osm == <<"o", "s", "m">>

\* The characters of an attribute's name, for format!("missing '{}' attribute", attr).
AttrStr(attr) ==
    CASE attr = "id" -> S_id
      [] attr = "lat" -> S_lat
      [] attr = "lon" -> S_lon
      [] attr = "ref" -> S_ref
      [] attr = "type" -> S_type
      [] attr = "role" -> S_role
      [] attr = "k" -> S_k
      [] attr = "v" -> S_v
      [] attr = "osm" -> S_osm

\* --------------------------------------------------------- Option / Result

None == [some |-> FALSE]
Some(v) == [some |-> TRUE, val |-> v]
Ok(v) == [ok |-> TRUE, val |-> v]
Err(e) == [ok |-> FALSE, err |-> e]

\* xml::reader::Error::from((&reader, msg)): the reader's position and the message.
\* The message is the format string of the code and the strings put into it.
\* The position is that of the last event pulled: its ordinal in the stream.
Error(pos, fmt, args) == [pos |-> pos, fmt |-> fmt, args |-> args]

\* ------------------------------------------------------------ FromStr impls

IsDigit(c) == c \in {"0", "1", "2", "3", "4", "5", "6", "7", "8", "9"}

DigitVal(c) ==
    CASE c = "0" -> 0 [] c = "1" -> 1 [] c = "2" -> 2 [] c = "3" -> 3
      [] c = "4" -> 4 [] c = "5" -> 5 [] c = "6" -> 6 [] c = "7" -> 7
      [] c = "8" -> 8 [] c = "9" -> 9

\* The value of a sequence of digits, most significant first.
RECURSIVE DigitsVal(_)
DigitsVal(ds) ==
    IF ds = << >> THEN 0
    ELSE 10 * DigitsVal(SubSeq(ds, 1, Len(ds) - 1)) + DigitVal(ds[Len(ds)])

\* The literal without its sign.
Unsigned(s) == IF s[1] \in {"+", "-"} THEN Tail(s) ELSE s

Signed(neg, mag) == IF neg THEN 0 - mag ELSE mag

\* from_str for i64, past the sign: one or more digits.
I64Digits(neg, ds) ==
    IF ds = << >> \/ \E i \in 1..Len(ds) : ~IsDigit(ds[i])
    THEN Err([fmt |-> "invalid digit found in string", args |-> << >>])
    ELSE Ok(Signed(neg, DigitsVal(ds)))

\* <i64 as FromStr>::from_str: an optional sign, then one or more digits.  The
\* attribute values drawn have at most three digits, far from the 64-bit range,
\* so the overflow errors of from_str cannot arise.
ParseI64(s) ==
    IF s = << >>
    THEN Err([fmt |-> "cannot parse integer from empty string", args |-> << >>])
    ELSE I64Digits(s[1] = "-", Unsigned(s))

\* A decimal with its trailing fractional zeros dropped: num / 10^scale.
RECURSIVE Decimal(_, _)
Decimal(num, scale) ==
    IF scale > 0 /\ num % 10 = 0 THEN Decimal(num \div 10, scale - 1)
    ELSE [num |-> num, scale |-> scale]

\* The digits after the point of a decimal literal.
FracDigits(body) ==
    IF \E i \in 1..Len(body) : body[i] = "."
    THEN Len(body) - (CHOOSE i \in 1..Len(body) : body[i] = ".")
    ELSE 0

\* from_str for f64, past the sign: digits with at most one point, at least one
\* digit.
F64Decimal(neg, body) ==
    IF \/ Cardinality({i \in 1..Len(body) : body[i] = "."}) > 1
       \/ SelectSeq(body, IsDigit) = << >>
       \/ \E i \in 1..Len(body) : ~IsDigit(body[i]) /\ body[i] # "."
    THEN Err([fmt |-> "invalid float literal", args |-> << >>])
    ELSE Ok(Decimal(Signed(neg, DigitsVal(SelectSeq(body, IsDigit))), FracDigits(body)))

\* <f64 as FromStr>::from_str on decimal literals.  The value is kept as the
\* decimal the literal denotes.  Exponents, "inf" and "nan" are not among the
\* values drawn.
ParseF64(s) ==
    IF s = << >>
    THEN Err([fmt |-> "cannot parse float from empty string", args |-> << >>])
    ELSE F64Decimal(s[1] = "-", Unsigned(s))

\* <String as FromStr>::from_str: infallible, the string itself.
ParseString(s) == Ok(s)

\* impl FromStr for MemberType.
ParseMemberType(s) ==
    CASE s = S_way -> Ok("Way")
      [] s = S_node -> Ok("Node")
      [] s = S_relation -> Ok("Relation")
      [] OTHER -> Err([fmt |-> "invalid member type '{}'", args |-> <<s>>])

\* --------------------------------------------------------------- elements.rs

\* Tags(HashMap<String, String>): a function from the keys held to their values.
TagsNew == [k \in {} |-> << >>]

\* Tags::insert: HashMap::insert, the value of an existing key is overwritten.
TagsInsert(tags, key, value) ==
    [k \in DOMAIN tags \cup {key} |-> IF k = key THEN value ELSE tags[k]]

TagsHas(tags, key) == key \in DOMAIN tags

TagsGet(tags, key) == IF key \in DOMAIN tags THEN Some(tags[key]) ELSE None

NodeNew(id, lat, lon) == [id |-> id, lat |-> lat, lon |-> lon, tags |-> TagsNew]

NodeInsertTag(node, key, value) ==
    [node EXCEPT !.tags = TagsInsert(node.tags, key, value)]

WayNew(id) == [id |-> id, nodes |-> << >>, tags |-> TagsNew]

WayPushNode(way, id) == [way EXCEPT !.nodes = Append(way.nodes, id)]

WayInsertTag(way, key, value) ==
    [way EXCEPT !.tags = TagsInsert(way.tags, key, value)]

RelationNew(id) == [id |-> id, members |-> << >>, tags |-> TagsNew]

RelationPushMember(rel, member) ==
    [rel EXCEPT !.members = Append(rel.members, member)]

RelationInsertTag(rel, key, value) ==
    [rel EXCEPT !.tags = TagsInsert(rel.tags, key, value)]

MemberNew(mtype, id, role) == [mtype |-> mtype, id |-> id, role |-> role]

\* A derived, field-by-field equality in place of the id-only one.
NodeEqAllFields(a, b) == a = b

\* impl PartialEq for Node (and Hash): the id alone.
NodeEq(a, b) == a.id = b.id

\* impl PartialEq for Way (and Hash): the id alone.
WayEq(a, b) == a.id = b.id

\* impl PartialEq for Relation (and Hash): the id alone.
RelationEq(a, b) == a.id = b.id

OsmNew == [nodes |-> {}, ways |-> {}, relations |-> {}]

\* Osm::add_node: HashSet::insert keeps the element it holds when an equal one is
\* inserted, and returns whether the value was newly inserted.
AddNode(osm, node) ==
    IF \E m \in osm.nodes : NodeEq(m, node)
    THEN [osm |-> osm, ret |-> FALSE]
    ELSE [osm |-> [osm EXCEPT !.nodes = @ \cup {node}], ret |-> TRUE]

\* An add_way whose ids would be unique across the three collections.
AddWayGlobalIds(osm, way) ==
    IF \E m \in osm.nodes \cup osm.ways \cup osm.relations : m.id = way.id
    THEN [osm |-> osm, ret |-> FALSE]
    ELSE [osm |-> [osm EXCEPT !.ways = @ \cup {way}], ret |-> TRUE]

AddWay(osm, way) ==
    IF \E m \in osm.ways : WayEq(m, way)
    THEN [osm |-> osm, ret |-> FALSE]
    ELSE [osm |-> [osm EXCEPT !.ways = @ \cup {way}], ret |-> TRUE]

AddRelation(osm, rel) ==
    IF \E m \in osm.relations : RelationEq(m, rel)
    THEN [osm |-> osm, ret |-> FALSE]
    ELSE [osm |-> [osm EXCEPT !.relations = @ \cup {rel}], ret |-> TRUE]

\* has_* / get_*: HashSet::contains / get through Borrow<i64>, by id.
HasNode(osm, id) == \E m \in osm.nodes : m.id = id
GetNode(osm, id) ==
    IF HasNode(osm, id) THEN Some(CHOOSE m \in osm.nodes : m.id = id) ELSE None
HasWay(osm, id) == \E m \in osm.ways : m.id = id
GetWay(osm, id) ==
    IF HasWay(osm, id) THEN Some(CHOOSE m \in osm.ways : m.id = id) ELSE None
HasRelation(osm, id) == \E m \in osm.relations : m.id = id
GetRelation(osm, id) ==
    IF HasRelation(osm, id) THEN Some(CHOOSE m \in osm.relations : m.id = id) ELSE None

\* ------------------------------------------------- the tokenizer's events

NoAttrs == [a \in {} |-> << >>]

\* XmlEvent::StartElement{name, attributes}: the local name and the attributes, a
\* function from the names present (an element holds a name once) to their values.
StartElement(name, attrs) == [type |-> "StartElement", name |-> name, attrs |-> attrs]
EndElement(name) == [type |-> "EndElement", name |-> name, attrs |-> NoAttrs]
StartDocument == [type |-> "StartDocument", name |-> "", attrs |-> NoAttrs]
EndDocument == [type |-> "EndDocument", name |-> "", attrs |-> NoAttrs]
ProcessingInstruction == [type |-> "ProcessingInstruction", name |-> "", attrs |-> NoAttrs]
\* Characters, Whitespace, CData or Comment: events read.rs never names.
Characters == [type |-> "Characters", name |-> "", attrs |-> NoAttrs]
\* reader.next() returning Err(e): the source is malformed or cannot be read.
SourceError == [type |-> "Err", name |-> "", attrs |-> NoAttrs]

\* The elements a document may hold, those of the input contract and, for each
\* required attribute, one that lacks it.
NodeValid ==
    { StartElement("node", [id |-> S_1, lat |-> S_52_1, lon |-> S_13_4]),
      StartElement("node", [id |-> S_1, lat |-> S_48_2, lon |-> S_13_4]),
      StartElement("node", [id |-> S_2, lat |-> S_52_1, lon |-> S_13_4]) }
NodeInvalid ==
    { StartElement("node", [lat |-> S_52_1, lon |-> S_13_4]),
      StartElement("node", [id |-> S_2, lon |-> S_13_4]),
      StartElement("node", [id |-> S_2, lat |-> S_52_1]),
      StartElement("node", [id |-> S_2, lat |-> S_abc, lon |-> S_13_4]),
      StartElement("node", [id |-> S_x, lat |-> S_52_1, lon |-> S_13_4]) }
WayValid == { StartElement("way", [id |-> S_10]), StartElement("way", [id |-> S_1]) }
WayInvalid == { StartElement("way", NoAttrs) }
RelationValid ==
    { StartElement("relation", [id |-> S_100]), StartElement("relation", [id |-> S_1]) }
RelationInvalid == { StartElement("relation", NoAttrs) }
TagValid ==
    { StartElement("tag", [k |-> S_name, v |-> S_A]),
      StartElement("tag", [k |-> S_name, v |-> S_x]),
      StartElement("tag", [k |-> S_highway, v |-> S_residential]) }
TagInvalid ==
    { StartElement("tag", [v |-> S_A]), StartElement("tag", [k |-> S_name]) }
NdValid == { StartElement("nd", [ref |-> S_1]), StartElement("nd", [ref |-> S_2]) }
NdInvalid == { StartElement("nd", NoAttrs), StartElement("nd", [ref |-> S_x]) }
MemberValid ==
    { StartElement("member", [type |-> S_way, ref |-> S_10, role |-> S_outer]),
      StartElement("member", [type |-> S_node, ref |-> S_1, role |-> S_empty]) }
MemberInvalid ==
    { StartElement("member", [type |-> S_area, ref |-> S_10, role |-> S_outer]),
      StartElement("member", [ref |-> S_10, role |-> S_outer]),
      StartElement("member", [type |-> S_way, role |-> S_outer]),
      StartElement("member", [type |-> S_way, ref |-> S_10]) }
\* Elements the input contract does not name.
UnknownTop == StartElement("bounds", NoAttrs)
UnknownChild == StartElement("foo", NoAttrs)
RootStarts == { StartElement("osm", NoAttrs), StartElement("gpx", NoAttrs) }

\* The elements that may open inside an open element named parent: documents have
\* the shape of an OSM file, with unknown elements allowed by the side.
ChildStarts(parent) ==
    CASE parent = "osm" ->
            NodeValid \cup NodeInvalid \cup WayValid \cup WayInvalid
                \cup RelationValid \cup RelationInvalid \cup {UnknownTop}
      [] parent = "node" -> TagValid \cup TagInvalid \cup {UnknownChild}
      [] parent = "way" -> NdValid \cup NdInvalid \cup TagValid \cup TagInvalid \cup {UnknownChild}
      [] parent = "relation" ->
            MemberValid \cup MemberInvalid \cup TagValid \cup TagInvalid \cup {UnknownChild}
      [] parent = "bounds" -> {UnknownChild}
      [] OTHER -> {}

\* EventReader::new(source): nothing read yet.
SourceNew == [phase |-> "init", open |-> << >>]

\* EventReader::next: the events the tokenizer may return next and its state after
\* each, n events having been returned.  The stream is well formed: StartDocument
\* first, then processing instructions, one root element whose elements nest and
\* close in order, then EndDocument, which is returned again once reached.  An
\* error may come in place of any event and is returned again once reached.
\* After MaxEvents events the tokenizer only closes what is open.
SourceNext(s, n) ==
    LET more == n < MaxEvents
        top == s.open[Len(s.open)]
        opened(e) == [ev |-> e, src |-> [phase |-> "body", open |-> Append(s.open, e.name)]]
        same(e) == [ev |-> e, src |-> s]
        failed == [ev |-> SourceError, src |-> [s EXCEPT !.phase = "failed"]]
        closed == [ev |-> EndElement(top),
                   src |-> [phase |-> IF Len(s.open) = 1 THEN "epilog" ELSE "body",
                            open |-> SubSeq(s.open, 1, Len(s.open) - 1)]]
    IN CASE s.phase = "init" ->
                { [ev |-> StartDocument, src |-> [s EXCEPT !.phase = "prolog"]], failed }
         [] s.phase = "prolog" ->
                IF more
                THEN { opened(e) : e \in RootStarts }
                        \cup { same(ProcessingInstruction), failed }
                ELSE { opened(StartElement("osm", NoAttrs)) }
         [] s.phase = "body" ->
                { closed } \cup
                (IF more
                 THEN { opened(e) : e \in ChildStarts(top) }
                        \cup { same(Characters), same(ProcessingInstruction), failed }
                 ELSE {})
         [] s.phase = "epilog" ->
                { [ev |-> EndDocument, src |-> [s EXCEPT !.phase = "end"]] }
         [] s.phase = "end" -> { same(EndDocument) }
         [] s.phase = "failed" -> { same(SourceError) }

\* ------------------------------------------------------- read.rs: helpers

\* `for item in attrs { match item.name.local_name.as_ref() { name => x = Some(item.value), .. } }`
AttrScan(attrs, name) == IF name \in DOMAIN attrs THEN Some(attrs[name]) ELSE None

\* The error reader.next()? propagates: the tokenizer's own, with its position.
NextError(pos) == Error(pos, "xml", << >>)

\* T::from_str for the types from_attr is used at.
FromStr(T, s) ==
    CASE T = "i64" -> ParseI64(s)
      [] T = "f64" -> ParseF64(s)
      [] T = "String" -> ParseString(s)
      [] T = "MemberType" -> ParseMemberType(s)

\* `.map_err(|err| Error::from((&*reader, format!("{}", err))))`
MapErr(r, pos) == IF r.ok THEN r ELSE Err(Error(pos, r.err.fmt, r.err.args))

\* A from_attr whose errors would carry the start of the stream for a position.
FromAttrNoPosition(val, pos, attr, T) ==
    IF val.some
    THEN MapErr(FromStr(T, val.val), 0)
    ELSE Err(Error(0, "missing '{}' attribute", <<AttrStr(attr)>>))

\* from_attr::<_, T>: the value parsed by T::from_str, its failure shown by
\* format!("{}", err); a missing value is format!("missing '{}' attribute", attr).
FromAttr(val, pos, attr, T) ==
    IF val.some
    THEN MapErr(FromStr(T, val.val), pos)
    ELSE Err(Error(pos, "missing '{}' attribute", <<AttrStr(attr)>>))

\* The attribute attr of attrs, scanned and converted.
Attr(attrs, pos, attr, T) == FromAttr(AttrScan(attrs, attr), pos, attr, T)

\* expect_element: Ok(Some(attributes)), Ok(None) at an end element, or an error.
ExpectElement(e, pos, elem) ==
    CASE e.type = "Err" -> Err(NextError(pos))
      [] e.type = "StartElement" ->
            IF e.name = elem THEN Ok(Some(e.attrs))
            ELSE Err(Error(pos, "expected element '{}'", <<AttrStr(elem)>>))
      [] e.type = "EndElement" -> Ok(None)
      [] OTHER -> Err(Error(pos, "expected element", << >>))

\* expect_any_element: Ok(Some((name, attributes))), Ok(None) at an end element, or
\* an error.
ExpectAnyElement(e, pos) ==
    CASE e.type = "Err" -> Err(NextError(pos))
      [] e.type = "StartElement" -> Ok(Some([name |-> e.name, attrs |-> e.attrs]))
      [] e.type = "EndElement" -> Ok(None)
      [] OTHER -> Err(Error(pos, "expected element", << >>))

\* `let k = ..?; let v = ..?; Ok((k, v))`
TagOf(k, v) ==
    IF ~k.ok THEN k
    ELSE IF ~v.ok THEN v
    ELSE Ok([k |-> k.val, v |-> v.val])

\* read_tag: k, then v; no event is pulled.
ReadTag(attrs, pos) ==
    TagOf(Attr(attrs, pos, "k", "String"), Attr(attrs, pos, "v", "String"))

\* read_nd: ref; no event is pulled.
ReadNd(attrs, pos) == Attr(attrs, pos, "ref", "i64")

\* `let mtype = ..?; let id = ..?; let role = ..?; Ok(Member::new(mtype, id, role))`
MemberOf(mtype, id, role) ==
    IF ~mtype.ok THEN mtype
    ELSE IF ~id.ok THEN id
    ELSE IF ~role.ok THEN role
    ELSE Ok(MemberNew(mtype.val, id.val, role.val))

\* read_member: type, then ref, then role; no event is pulled.
ReadMember(attrs, pos) ==
    MemberOf(Attr(attrs, pos, "type", "MemberType"),
             Attr(attrs, pos, "ref", "i64"),
             Attr(attrs, pos, "role", "String"))

\* `let id = ..?; let lat = ..?; let lon = ..?; Node::new(id, lat, lon)`
NodeOf(id, lat, lon) ==
    IF ~id.ok THEN id
    ELSE IF ~lat.ok THEN lat
    ELSE IF ~lon.ok THEN lon
    ELSE Ok(NodeNew(id.val, lat.val, lon.val))

\* read_node up to its loop: id, then lat, then lon, then Node::new.
ReadNode(attrs, pos) ==
    NodeOf(Attr(attrs, pos, "id", "i64"),
           Attr(attrs, pos, "lat", "f64"),
           Attr(attrs, pos, "lon", "f64"))

WayOf(id) == IF ~id.ok THEN id ELSE Ok(WayNew(id.val))

\* read_way up to its loop.
ReadWay(attrs, pos) == WayOf(Attr(attrs, pos, "id", "i64"))

RelationOf(id) == IF ~id.ok THEN id ELSE Ok(RelationNew(id.val))

\* read_relation up to its loop.
ReadRelation(attrs, pos) == RelationOf(Attr(attrs, pos, "id", "i64"))

\* ------------------------------------------------- read.rs: the state machine
\* A parser state st is [pc, res, cur, result, addLog].  ReadXmlPrologue,
\* ReadXmlRoot, ReadDocument and Read*Body are the code from one reader.next() to
\* the next: each takes the event e that next() returned, the pos-th of the
\* stream, and gives the state at the following next(), or at the return of
\* read_xml.

Running == [status |-> "running"]

\* An error that would be recorded while the readers go on pulling events.
FailKeepReading(st, err) == [st EXCEPT !.result = [status |-> "err", err |-> err]]

\* read_xml returns Err(err): the locals, res among them, are dropped with it.
Fail(st, err) == [st EXCEPT !.pc = "done", !.result = [status |-> "err", err |-> err]]

\* A prologue loop that would try again after an error of the tokenizer.
ReadXmlPrologueRetrying(st, e, pos) ==
    CASE e.type \in {"Err", "ProcessingInstruction"} -> st
      [] OTHER -> [st EXCEPT !.pc = "root"]

\* read_xml, the `while let ProcessingInstruction` loop: the event that ends the
\* loop has been taken from the reader like those before it.
ReadXmlPrologue(st, e, pos) ==
    CASE e.type = "Err" -> Fail(st, NextError(pos))
      [] e.type = "ProcessingInstruction" -> st
      [] OTHER -> [st EXCEPT !.pc = "root"]

\* `if expect_element(..)?.is_none() { panic!(..) } read_document(&mut reader)`
RootOf(st, r) ==
    IF ~r.ok THEN Fail(st, r.err)
    ELSE IF ~r.val.some
         THEN [st EXCEPT !.pc = "done", !.result = [status |-> "panic"]]
         ELSE [st EXCEPT !.pc = "document", !.res = OsmNew]

\* read_xml, expect_element(.., "osm"), and the entry of read_document.
ReadXmlRoot(st, e, pos) == RootOf(st, ExpectElement(e, pos, "osm"))

\* `read_node(attrs, reader)?` and its like, up to the reader's loop: r is the
\* entity made from the attributes, or the error.
Enter(st, kind, r) ==
    IF r.ok THEN [st EXCEPT !.pc = kind, !.cur = r.val] ELSE Fail(st, r.err)

\* A read_document that would pass over what is neither a start element nor the
\* end of the document.
ReadDocumentSkipping(st, e, pos) ==
    CASE e.type = "Err" -> Fail(st, NextError(pos))
      [] e.type = "EndDocument" ->
            [st EXCEPT !.pc = "done", !.result = [status |-> "ok", osm |-> st.res]]
      [] e.type = "StartElement" ->
            CASE e.name = "node" -> Enter(st, "node", ReadNode(e.attrs, pos))
              [] e.name = "way" -> Enter(st, "way", ReadWay(e.attrs, pos))
              [] e.name = "relation" -> Enter(st, "relation", ReadRelation(e.attrs, pos))
              [] OTHER -> st
      [] OTHER -> st

\* read_document, one turn of its loop, up to the loop of the reader it calls.
ReadDocument(st, e, pos) ==
    CASE e.type = "Err" -> Fail(st, NextError(pos))
      [] e.type = "EndDocument" ->
            [st EXCEPT !.pc = "done", !.result = [status |-> "ok", osm |-> st.res]]
      [] e.type = "StartElement" ->
            CASE e.name = "node" -> Enter(st, "node", ReadNode(e.attrs, pos))
              [] e.name = "way" -> Enter(st, "way", ReadWay(e.attrs, pos))
              [] e.name = "relation" -> Enter(st, "relation", ReadRelation(e.attrs, pos))
              [] OTHER -> st
      [] OTHER -> Fail(st, Error(pos, "expected element", << >>))

\* The reader returns Ok(entity) and read_document's `res.add_*(..);` has run
\* with outcome a; the loop of read_document comes next.
Added(st, kind, a) ==
    [st EXCEPT !.pc = "document", !.res = a.osm, !.cur = None,
               !.addLog = Append(@, [kind |-> kind, arg |-> st.cur, ret |-> a.ret])]

\* `let (k, v) = read_tag(attrs, reader)?; node.insert_tag(k, v);`
NodeTag(st, t) ==
    IF t.ok THEN [st EXCEPT !.cur = NodeInsertTag(@, t.val.k, t.val.v)]
    ELSE Fail(st, t.err)

\* read_node's loop on the outcome r of expect_any_element.
ReadNodeChild(st, r, pos) ==
    IF ~r.ok THEN Fail(st, r.err)
    ELSE IF ~r.val.some THEN Added(st, "node", AddNode(st.res, st.cur))
    ELSE IF r.val.val.name = "tag" THEN NodeTag(st, ReadTag(r.val.val.attrs, pos))
    ELSE st

\* read_node, one turn of its loop; at Ok(None) the node is returned and
\* read_document passes it to add_node.
ReadNodeBody(st, e, pos) == ReadNodeChild(st, ExpectAnyElement(e, pos), pos)

\* `way.push_node(read_nd(attrs, reader)?);`
WayNd(st, n) ==
    IF n.ok THEN [st EXCEPT !.cur = WayPushNode(@, n.val)] ELSE Fail(st, n.err)

\* `let (k, v) = read_tag(attrs, reader)?; way.insert_tag(k, v)`
WayTag(st, t) ==
    IF t.ok THEN [st EXCEPT !.cur = WayInsertTag(@, t.val.k, t.val.v)]
    ELSE Fail(st, t.err)

\* read_way's loop on the outcome r of expect_any_element.
ReadWayChild(st, r, pos) ==
    IF ~r.ok THEN Fail(st, r.err)
    ELSE IF ~r.val.some THEN Added(st, "way", AddWay(st.res, st.cur))
    ELSE CASE r.val.val.name = "nd" -> WayNd(st, ReadNd(r.val.val.attrs, pos))
           [] r.val.val.name = "tag" -> WayTag(st, ReadTag(r.val.val.attrs, pos))
           [] OTHER -> st

\* read_way, one turn of its loop; at Ok(None) the way goes to add_way.
ReadWayBody(st, e, pos) == ReadWayChild(st, ExpectAnyElement(e, pos), pos)

\* `relation.push_member(read_member(attrs, reader)?);`
RelationMember(st, m) ==
    IF m.ok THEN [st EXCEPT !.cur = RelationPushMember(@, m.val)] ELSE Fail(st, m.err)

\* `let (k, v) = read_tag(attrs, reader)?; relation.insert_tag(k, v);`
RelationTag(st, t) ==
    IF t.ok THEN [st EXCEPT !.cur = RelationInsertTag(@, t.val.k, t.val.v)]
    ELSE Fail(st, t.err)

\* read_relation's loop on the outcome r of expect_any_element.
ReadRelationChild(st, r, pos) ==
    IF ~r.ok THEN Fail(st, r.err)
    ELSE IF ~r.val.some THEN Added(st, "relation", AddRelation(st.res, st.cur))
    ELSE CASE r.val.val.name = "member" ->
                RelationMember(st, ReadMember(r.val.val.attrs, pos))
           [] r.val.val.name = "tag" -> RelationTag(st, ReadTag(r.val.val.attrs, pos))
           [] OTHER -> st

\* read_relation, one turn of its loop; at Ok(None) the relation goes to
\* add_relation.
ReadRelationBody(st, e, pos) == ReadRelationChild(st, ExpectAnyElement(e, pos), pos)

\* ------------------------------------------------------------ specification

ParserState ==
    [pc |-> pc, res |-> res, cur |-> cur, result |-> result, addLog |-> addLog]

\* The code that runs on the event next() returned, by where read_xml stands.
Step(st, e, pos) ==
    CASE st.pc = "prologue" -> ReadXmlPrologue(st, e, pos)
      [] st.pc = "root" -> ReadXmlRoot(st, e, pos)
      [] st.pc = "document" -> ReadDocument(st, e, pos)
      [] st.pc = "node" -> ReadNodeBody(st, e, pos)
      [] st.pc = "way" -> ReadWayBody(st, e, pos)
      [] st.pc = "relation" -> ReadRelationBody(st, e, pos)

\* One reader.next() and the code that runs on its event.
Pull ==
    \E p \in SourceNext(src, Len(consumed)) :
        LET st == Step(ParserState, p.ev, Len(consumed) + 1)
        IN /\ src' = p.src
           /\ consumed' = Append(consumed, p.ev)
           /\ pc' = st.pc
           /\ res' = st.res
           /\ cur' = st.cur
           /\ result' = st.result
           /\ addLog' = st.addLog

\* read_xml(source) has made its EventReader.
Init ==
    /\ src = SourceNew
    /\ consumed = << >>
    /\ pc = "prologue"
    /\ res = OsmNew
    /\ cur = None
    /\ result = Running
    /\ addLog = << >>

\* A client of elements.rs has made its own Osm::new().
InitClient ==
    /\ src = SourceNew
    /\ consumed = << >>
    /\ pc = "client"
    /\ res = OsmNew
    /\ cur = None
    /\ result = Running
    /\ addLog = << >>

\* The entities a client builds with Node::new / Way::new / Relation::new and
\* insert_tag / push_node / push_member.
Lat52_1 == [num |-> 521, scale |-> 1]
Lat48_2 == [num |-> 482, scale |-> 1]
Lon13_4 == [num |-> 134, scale |-> 1]
ClientNodes ==
    { NodeNew(1, Lat52_1, Lon13_4),
      NodeInsertTag(NodeNew(1, Lat48_2, Lon13_4), S_name, S_A),
      NodeNew(2, Lat52_1, Lon13_4) }
ClientWays == { WayNew(1), WayPushNode(WayPushNode(WayNew(1), 2), 2), WayNew(2) }
ClientRelations ==
    { RelationNew(1), RelationPushMember(RelationNew(1), MemberNew("Way", 1, S_outer)) }

\* A direct call of add_node / add_way / add_relation.
CallAdd(kind, arg, a) ==
    /\ pc = "client"
    /\ Len(addLog) < MaxCalls
    /\ res' = a.osm
    /\ addLog' = Append(addLog, [kind |-> kind, arg |-> arg, ret |-> a.ret])
    /\ UNCHANGED <<src, consumed, pc, cur, result>>

CallAddNode == \E n \in ClientNodes : CallAdd("node", n, AddNode(res, n))
CallAddWay == \E w \in ClientWays : CallAdd("way", w, AddWay(res, w))
CallAddRelation == \E r \in ClientRelations : CallAdd("relation", r, AddRelation(res, r))

StepPrologue == pc = "prologue" /\ Pull
StepRoot == pc = "root" /\ Pull
StepDocument == pc = "document" /\ Pull
StepNode == pc = "node" /\ Pull
StepWay == pc = "way" /\ Pull
StepRelation == pc = "relation" /\ Pull

Next ==
    \/ StepPrologue
    \/ StepRoot
    \/ StepDocument
    \/ StepNode
    \/ StepWay
    \/ StepRelation
    \/ CallAddNode
    \/ CallAddWay
    \/ CallAddRelation

\* The library's two entries: read_xml on a source, or the Osm API used directly.
Spec == (Init \/ InitClient) /\ [][Next]_vars

\* read_xml alone.  It is one sequential function: while it has not returned, its
\* next reader.next() and the code after it do run.
NextRead ==
    \/ StepPrologue
    \/ StepRoot
    \/ StepDocument
    \/ StepNode
    \/ StepWay
    \/ StepRelation

ReadSpec == Init /\ [][NextRead]_vars /\ WF_vars(NextRead)

\* ------------------------------------------------ what a document declares
\* The structure of the events pulled so far, read by XML nesting alone.  The
\* reader pulls events in order and never looks ahead, so what it returns on a
\* document is what it returns once it has pulled a prefix of that document.

Range(f) == {f[i] : i \in DOMAIN f}

IsPrefix(p, q) == Len(p) <= Len(q) /\ SubSeq(q, 1, Len(p)) = p

\* The elements open after the first i events of evs.
RECURSIVE Depth(_, _)
Depth(evs, i) ==
    IF i = 0 THEN 0
    ELSE Depth(evs, i - 1)
            + (CASE evs[i].type = "StartElement" -> 1
                 [] evs[i].type = "EndElement" -> -1
                 [] OTHER -> 0)

\* Event j opens a child of the element that event s opens.
IsChild(evs, s, j) ==
    /\ s < j /\ j <= Len(evs)
    /\ evs[j].type = "StartElement"
    /\ Depth(evs, j - 1) = Depth(evs, s)
    /\ \A m \in s..(j - 1) : Depth(evs, m) >= Depth(evs, s)

ChildIdx(evs, s) == {j \in (s + 1)..Len(evs) : IsChild(evs, s, j)}

\* The children of the root element, which event 2 opens.
TopLevel(evs) == ChildIdx(evs, 2)

RECURSIVE Ascending(_)
Ascending(S) ==
    IF S = {} THEN << >>
    ELSE LET m == CHOOSE x \in S : \A y \in S : x <= y
         IN <<m>> \o Ascending(S \ {m})

\* The start events of the children of element s, in document order.
Children(evs, s) ==
    LET idx == Ascending(ChildIdx(evs, s))
    IN [i \in 1..Len(idx) |-> evs[idx[i]]]

\* A document of root osm whose elements are all among allowed, with no text,
\* processing instruction or tokenizer error.
Document(evs, allowed) ==
    /\ Len(evs) >= 2
    /\ evs[1] = StartDocument
    /\ evs[2] = StartElement("osm", NoAttrs)
    /\ \A i \in 3..Len(evs) :
          evs[i].type \in {"EndElement", "EndDocument"} \/ evs[i] \in allowed

EntityValid == NodeValid \cup WayValid \cup RelationValid
ValidStarts ==
    EntityValid \cup TagValid \cup NdValid \cup MemberValid \cup {UnknownTop, UnknownChild}

\* No id is declared twice within a kind.
DistinctIds(evs) ==
    \A s, t \in TopLevel(evs) :
        (s # t /\ evs[s].name = evs[t].name) => evs[s].attrs.id # evs[t].attrs.id

DeclaredId(e) == ParseI64(e.attrs.id).val

\* The entities of the dataset osm that carry the kind and id element e declares.
Stored(osm, e) ==
    CASE e.name = "node" -> {m \in osm.nodes : m.id = DeclaredId(e)}
      [] e.name = "way" -> {m \in osm.ways : m.id = DeclaredId(e)}
      [] e.name = "relation" -> {m \in osm.relations : m.id = DeclaredId(e)}

\* The tags the children cs declare, a later declaration of a key replacing an
\* earlier one.
DeclaredTags(cs) ==
    LET tagIdx == {i \in 1..Len(cs) : cs[i].name = "tag"}
        keys == {cs[i].attrs.k : i \in tagIdx}
        last(k) == CHOOSE i \in tagIdx :
                      /\ cs[i].attrs.k = k
                      /\ \A j \in tagIdx : cs[j].attrs.k = k => j <= i
    IN [k \in keys |-> cs[last(k)].attrs.v]

\* The refs the nd children among cs declare, in order.
DeclaredRefs(cs) ==
    LET nds == SelectSeq(cs, LAMBDA c : c.name = "nd")
    IN [i \in 1..Len(nds) |-> ParseI64(nds[i].attrs.ref).val]

MemberKind(s) ==
    CASE s = S_way -> "Way" [] s = S_node -> "Node" [] s = S_relation -> "Relation"

\* The members the member children among cs declare, in order.
DeclaredMembers(cs) ==
    LET ms == SelectSeq(cs, LAMBDA c : c.name = "member")
    IN [i \in 1..Len(ms) |->
            [mtype |-> MemberKind(ms[i].attrs.type),
             id |-> ParseI64(ms[i].attrs.ref).val,
             role |-> ms[i].attrs.role]]

\* The entity element s of evs declares.
Declared(evs, s) ==
    LET e == evs[s]
        cs == Children(evs, s)
    IN CASE e.name = "node" ->
                [id |-> DeclaredId(e), lat |-> ParseF64(e.attrs.lat).val,
                 lon |-> ParseF64(e.attrs.lon).val, tags |-> DeclaredTags(cs)]
         [] e.name = "way" ->
                [id |-> DeclaredId(e), nodes |-> DeclaredRefs(cs), tags |-> DeclaredTags(cs)]
         [] e.name = "relation" ->
                [id |-> DeclaredId(e), members |-> DeclaredMembers(cs),
                 tags |-> DeclaredTags(cs)]

Entities(evs) == {s \in TopLevel(evs) : evs[s].name \in {"node", "way", "relation"}}

\* --------------------------------------------------------------------- C1

ExampleDoc ==
    << StartDocument,
       StartElement("osm", NoAttrs),
       StartElement("node", [id |-> S_1, lat |-> S_52_1, lon |-> S_13_4]),
       StartElement("tag", [k |-> S_name, v |-> S_A]),
       EndElement("tag"),
       EndElement("node"),
       StartElement("way", [id |-> S_10]),
       StartElement("nd", [ref |-> S_1]),
       EndElement("nd"),
       StartElement("tag", [k |-> S_highway, v |-> S_residential]),
       EndElement("tag"),
       EndElement("way"),
       StartElement("relation", [id |-> S_100]),
       StartElement("member", [type |-> S_way, ref |-> S_10, role |-> S_outer]),
       EndElement("member"),
       EndElement("relation"),
       EndElement("osm"),
       EndDocument >>

\* C1: read_xml on the events of the example document returns success, and the
\* Dataset holds exactly the point 1 with tags {name -> A}, the polyline 10 with
\* nodes [1] and tags {highway -> residential}, and the relationship 100 with
\* members [(way, 10, "outer")].
C1_EndToEnd ==
    (pc = "done" /\ IsPrefix(consumed, ExampleDoc)) =>
        /\ result.status = "ok"
        /\ \E n \in result.osm.nodes :
              /\ result.osm.nodes = {n}
              /\ n.id = 1 /\ n.tags = (S_name :> S_A)
        /\ \E w \in result.osm.ways :
              /\ result.osm.ways = {w}
              /\ w.id = 10 /\ w.nodes = <<1>> /\ w.tags = (S_highway :> S_residential)
        /\ \E r \in result.osm.relations :
              /\ result.osm.relations = {r}
              /\ r.id = 100
              /\ r.members = <<[mtype |-> "Way", id |-> 10, role |-> S_outer]>>

\* --------------------------------------------------------------------- C2

\* C2: a document whose root holds N valid node elements of mutually distinct
\* ids, with or without tag children, is read with success and the Dataset holds
\* exactly N points, one per declared id.
C2_DistinctNodes ==
    (/\ pc = "done"
     /\ Document(consumed, NodeValid \cup TagValid)
     /\ TopLevel(consumed) # {}
     /\ DistinctIds(consumed)) =>
        /\ result.status = "ok"
        /\ Cardinality(result.osm.nodes) = Cardinality(TopLevel(consumed))
        /\ {n.id : n \in result.osm.nodes}
              = {DeclaredId(consumed[s]) : s \in TopLevel(consumed)}

\* --------------------------------------------------------------------- C3

FirstAdd(j) ==
    \A i \in 1..(j - 1) :
        ~(addLog[i].kind = addLog[j].kind /\ addLog[i].arg.id = addLog[j].arg.id)

Collection(osm, kind) ==
    CASE kind = "node" -> osm.nodes
      [] kind = "way" -> osm.ways
      [] kind = "relation" -> osm.relations

\* C3: first occurrence wins.  Each add_* call returns true exactly when no
\* earlier call added an entity of that kind and id, and each collection holds
\* exactly the arguments of the calls that returned true, with every field they
\* had: a later entity of a held id neither replaces nor joins the first.
C3_FirstOccurrenceWins ==
    /\ \A j \in 1..Len(addLog) : addLog[j].ret = FirstAdd(j)
    /\ \A kind \in {"node", "way", "relation"} :
          Collection(res, kind)
              = {addLog[j].arg : j \in {i \in 1..Len(addLog) :
                                            addLog[i].kind = kind /\ FirstAdd(i)}}

\* An id added a second time with other fields than the first, for each kind of
\* caller: a document that re-declares the id, and a direct call.
C3_Witness ==
    /\ \E i, j \in 1..Len(addLog) :
          /\ i < j
          /\ addLog[i].kind = addLog[j].kind
          /\ addLog[i].arg.id = addLog[j].arg.id
          /\ addLog[i].arg # addLog[j].arg
          /\ addLog[j].ret = FALSE
    /\ pc # "client"

\* --------------------------------------------------------------------- C4

\* Some entity element of evs has two tag children of one key.
KeyDeclaredTwice(evs) ==
    \E s \in Entities(evs) : \E i, j \in ChildIdx(evs, s) :
        /\ i # j
        /\ evs[i].name = "tag" /\ evs[j].name = "tag"
        /\ evs[i].attrs.k = evs[j].attrs.k
        /\ evs[i].attrs.v # evs[j].attrs.v

\* C4: when a node, way or relation element declares a tag key more than once,
\* the parse succeeds and the stored entity maps each key its element declares
\* to the value of the last declaration of that key.
C4_TagLastWriteWins ==
    (/\ pc = "done"
     /\ Document(consumed, EntityValid \cup TagValid)
     /\ DistinctIds(consumed)
     /\ KeyDeclaredTwice(consumed)) =>
        /\ result.status = "ok"
        /\ \A s \in Entities(consumed) :
              \E ent \in Stored(result.osm, consumed[s]) :
                  ent.tags = DeclaredTags(Children(consumed, s))

\* --------------------------------------------------------------------- C5

\* Some element of evs named name has two children named child.
HasTwo(evs, name, child) ==
    \E s \in Entities(evs) :
        /\ evs[s].name = name
        /\ Cardinality({j \in ChildIdx(evs, s) : evs[j].name = child}) >= 2

\* C5: a way element with nd children r1 .. rn, tag children among them, is read
\* with success and the stored polyline's node sequence is [r1, .., rn].
C5_WayNodeOrder ==
    (/\ pc = "done"
     /\ Document(consumed, WayValid \cup NdValid \cup TagValid)
     /\ DistinctIds(consumed)
     /\ HasTwo(consumed, "way", "nd")) =>
        /\ result.status = "ok"
        /\ \A s \in Entities(consumed) :
              \E w \in Stored(result.osm, consumed[s]) :
                  w.nodes = DeclaredRefs(Children(consumed, s))

\* --------------------------------------------------------------------- C6

\* C6: a relation element with member children m1 .. mn is read with success and
\* the stored relationship's members are [m1, .., mn], kind, ref and role kept,
\* an empty role as the empty string.
C6_RelationMemberOrder ==
    (/\ pc = "done"
     /\ Document(consumed, RelationValid \cup MemberValid)
     /\ DistinctIds(consumed)
     /\ HasTwo(consumed, "relation", "member")) =>
        /\ result.status = "ok"
        /\ \A s \in Entities(consumed) :
              \E r \in Stored(result.osm, consumed[s]) :
                  r.members = DeclaredMembers(Children(consumed, s))

\* --------------------------------------------------------------------- C7

\* C7: an unknown child element inside a node, way or relation is ignored: the
\* parse succeeds and the entity stored is the one its known children declare.
C7_UnknownChildIgnored ==
    (/\ pc = "done"
     /\ Document(consumed, ValidStarts \ {UnknownTop})
     /\ DistinctIds(consumed)
     /\ \E s \in Entities(consumed) : \E j \in ChildIdx(consumed, s) :
            consumed[j] = UnknownChild) =>
        /\ result.status = "ok"
        /\ \A s \in Entities(consumed) :
              Stored(result.osm, consumed[s]) = {Declared(consumed, s)}

\* --------------------------------------------------------------------- C8

\* The attributes the input contract requires of an element.
Required(name) ==
    CASE name = "node" -> {"id", "lat", "lon"}
      [] name = "way" -> {"id"}
      [] name = "relation" -> {"id"}
      [] name = "nd" -> {"ref"}
      [] name = "member" -> {"type", "ref", "role"}
      [] name = "tag" -> {"k", "v"}
      [] OTHER -> {}

Missing(e) == Required(e.name) \ DOMAIN e.attrs

\* The elements of the tokenizer that lack one required attribute.
MissingStarts ==
    {e \in NodeInvalid \cup WayInvalid \cup RelationInvalid \cup TagInvalid
            \cup NdInvalid \cup MemberInvalid :
        Missing(e) # {} /\ \A a \in DOMAIN e.attrs : e.attrs[a] \notin {S_abc, S_x, S_area}}

\* C8: a document whose one defect is an element that lacks a required attribute
\* a makes read_xml return the missing-attribute error naming a, and no Dataset.
C8_MissingAttribute ==
    (/\ pc = "done"
     /\ Document(consumed, ValidStarts \cup MissingStarts)
     /\ \E d \in 3..Len(consumed) :
           /\ consumed[d] \in MissingStarts
           /\ \A i \in 3..Len(consumed) : consumed[i] \in MissingStarts => i = d) =>
        /\ result.status = "err"
        /\ \E d \in 3..Len(consumed) : \E a \in Missing(consumed[d]) :
              /\ consumed[d] \in MissingStarts
              /\ result.err.fmt = "missing '{}' attribute"
              /\ result.err.args = <<AttrStr(a)>>

\* --------------------------------------------------------------------- C9

BadLatNode == StartElement("node", [id |-> S_2, lat |-> S_abc, lon |-> S_13_4])

\* C9: a node with lat="abc" makes read_xml return an error that is not the
\* missing-attribute one and whose message holds the name "lat" and the raw
\* string "abc".
C9_InvalidAttributeValue ==
    (/\ pc = "done"
     /\ Document(consumed, ValidStarts \cup {BadLatNode})
     /\ \E d \in 3..Len(consumed) : consumed[d] = BadLatNode) =>
        /\ result.status = "err"
        /\ result.err.fmt # "missing '{}' attribute"
        /\ S_lat \in Range(result.err.args)
        /\ S_abc \in Range(result.err.args)

\* -------------------------------------------------------------------- C10

AreaMember == StartElement("member", [type |-> S_area, ref |-> S_10, role |-> S_outer])

\* C10: a member with type="area" makes read_xml return the invalid member type
\* error holding "area"; the relation of that member is not passed to
\* add_relation and no Dataset is returned.
C10_InvalidMemberType ==
    (/\ pc = "done"
     /\ Document(consumed, ValidStarts \cup {AreaMember})
     /\ DistinctIds(consumed)
     /\ \E d \in 3..Len(consumed) : consumed[d] = AreaMember) =>
        /\ result.status = "err"
        /\ result.err.fmt = "invalid member type '{}'"
        /\ result.err.args = <<S_area>>
        /\ \A s \in Entities(consumed) :
              (\E d \in ChildIdx(consumed, s) : consumed[d] = AreaMember) =>
                  \A j \in 1..Len(addLog) :
                      ~(addLog[j].kind = "relation"
                            /\ addLog[j].arg.id = DeclaredId(consumed[s]))

\* -------------------------------------------------------------------- C11

\* The first event that is neither the StartDocument nor a processing
\* instruction, 0 while there is none.
FirstOther(evs) ==
    LET idx == {i \in 1..Len(evs) :
                    evs[i].type \notin {"StartDocument", "ProcessingInstruction"}}
    IN IF idx = {} THEN 0 ELSE CHOOSE i \in idx : \A j \in idx : i <= j

IsOsmStart(e) == e.type = "StartElement" /\ e.name = "osm"

\* C11: the leading processing instructions are discarded without error; the
\* first event after them must be the start of osm: if it is, the body is read
\* from the event after it, and if it is anything else read_xml returns an error
\* at that event, without a panic and without pulling further.
C11_PrologueAndRoot ==
    IF FirstOther(consumed) = 0
    THEN result.status = "running"
    ELSE IF IsOsmStart(consumed[FirstOther(consumed)])
         THEN Len(consumed) = FirstOther(consumed) =>
                  (pc = "document" /\ result.status = "running")
         ELSE /\ pc = "done"
              /\ result.status = "err"
              /\ Len(consumed) = FirstOther(consumed)

\* -------------------------------------------------------------------- C12

\* The end element of the element that event s opens has been pulled.
Closed(evs, s) == \E m \in (s + 1)..Len(evs) : Depth(evs, m) < Depth(evs, s)

\* The entity elements of evs that are complete, in document order.
ClosedEntities(evs) == Ascending({s \in Entities(evs) : Closed(evs, s)})

\* What the complete entity elements of evs declare is what was passed to add_*,
\* in order.
AddedAsDeclared(evs) ==
    /\ Len(addLog) = Len(ClosedEntities(evs))
    /\ \A j \in 1..Len(addLog) :
          /\ addLog[j].kind = evs[ClosedEntities(evs)[j]].name
          /\ addLog[j].arg = Declared(evs, ClosedEntities(evs)[j])

\* C12: while the root is open, a complete unknown top-level element among
\* childless entities causes no error and adds nothing: read_xml is still
\* reading, and the entities before and after it are the ones added.
C12_UnknownTopLevelIgnored ==
    (/\ Document(consumed, EntityValid \cup {UnknownTop, UnknownChild})
     /\ Depth(consumed, Len(consumed)) >= 1
     /\ \A s \in Entities(consumed) : ChildIdx(consumed, s) = {}
     /\ \E s \in TopLevel(consumed) : consumed[s] = UnknownTop /\ Closed(consumed, s)) =>
        /\ result.status = "running"
        /\ AddedAsDeclared(consumed)

\* -------------------------------------------------------------------- C13

\* C13: in a document of valid entities, an entity is passed to add_* only once
\* the end element of its own element has been pulled, with every tag, nd and
\* member child of its body applied, and each complete entity exactly once.
C13_LifecycleOrdering ==
    Document(consumed, ValidStarts \ {UnknownTop}) => AddedAsDeclared(consumed)

\* -------------------------------------------------------------------- C14

\* C14: fail-fast.  Once an error is detected read_xml has returned it: no
\* further event is pulled, the error is the one of the last event pulled, the
\* result holds no Dataset, and an error of the event source is returned at the
\* event that brought it.
C14_FailFast ==
    /\ result.status = "err" =>
          /\ pc = "done"
          /\ ~ENABLED Next
          /\ DOMAIN result = {"status", "err"}
          /\ result.err.pos = Len(consumed)
    /\ \A i \in 1..Len(consumed) :
          consumed[i].type = "Err" =>
              (i = Len(consumed) /\ result.status = "err" /\ result.err = NextError(i))

\* A missing-attribute error after a node was completed and added.
C14_Witness ==
    /\ result.status = "err"
    /\ Len(addLog) >= 1
    /\ res.nodes # {}
    /\ result.err.fmt = "missing '{}' attribute"

\* -------------------------------------------------------------------- C15

SomeIds == {1, 2, 10, 100}

\* Each collection holds one entity per id at most, and an add returns true
\* whenever no entity of its own kind and id was added before.
UniquePerKind ==
    /\ \A kind \in {"node", "way", "relation"} :
          \A a, b \in Collection(res, kind) : a.id = b.id => a = b
    /\ \A j \in 1..Len(addLog) : FirstAdd(j) => addLog[j].ret

\* The add_* call of this step leaves has_* and get_* of the other two
\* collections as they were.
OtherKindsKept ==
    \A id \in SomeIds :
        /\ addLog'[Len(addLog')].kind # "node" =>
              (HasNode(res', id) = HasNode(res, id) /\ GetNode(res', id) = GetNode(res, id))
        /\ addLog'[Len(addLog')].kind # "way" =>
              (HasWay(res', id) = HasWay(res, id) /\ GetWay(res', id) = GetWay(res, id))
        /\ addLog'[Len(addLog')].kind # "relation" =>
              (/\ HasRelation(res', id) = HasRelation(res, id)
               /\ GetRelation(res', id) = GetRelation(res, id))

\* C15: ids are unique per kind and the three collections are independent.
C15_PerKindUniqueness ==
    []UniquePerKind /\ [][Len(addLog') > Len(addLog) => OtherKindsKept]_vars

\* A node, a way and a relation of id 1, each added with true, by direct calls.
C15_Witness ==
    /\ pc = "client"
    /\ HasNode(res, 1) /\ HasWay(res, 1) /\ HasRelation(res, 1)
    /\ \A j \in 1..Len(addLog) : addLog[j].ret
    /\ Len(addLog) = 3

\* -------------------------------------------------------------------- C16

\* The entity elements of evs still open.
OpenEntity(evs) == {s \in Entities(evs) : ~Closed(evs, s)}

\* C16: text or a processing instruction directly inside the body of a node, way
\* or relation makes read_xml return the unexpected-event error at that event,
\* and the entity of that body has not been passed to add_*.
C16_NonElementInBody ==
    (/\ Document(consumed, (ValidStarts \ {UnknownTop})
                              \cup {Characters, ProcessingInstruction})
     /\ DistinctIds(consumed)
     /\ consumed[Len(consumed)].type \in {"Characters", "ProcessingInstruction"}
     /\ Depth(consumed, Len(consumed)) = 2
     /\ OpenEntity(consumed) # {}) =>
        /\ pc = "done"
        /\ result.status = "err"
        /\ result.err = Error(Len(consumed), "expected element", << >>)
        /\ \A s \in OpenEntity(consumed) : \A j \in 1..Len(addLog) :
              ~(addLog[j].kind = consumed[s].name
                    /\ addLog[j].arg.id = DeclaredId(consumed[s]))

\* -------------------------------------------------------------------- C17

\* One turn of read_document's loop on the event it pulls: the end of the document
\* returns the Dataset as it stands, a start element goes to the reader of its
\* name (or is passed over when the name is none of the three), and anything else
\* is returned as an error.
DocumentTurn ==
    pc = "document" =>
        CASE consumed'[Len(consumed')].type = "EndDocument" ->
                pc' = "done" /\ result' = [status |-> "ok", osm |-> res]
          [] consumed'[Len(consumed')].type = "StartElement" ->
                IF consumed'[Len(consumed')].name \in {"node", "way", "relation"}
                THEN \/ /\ pc' = consumed'[Len(consumed')].name
                        /\ cur'.id = DeclaredId(consumed'[Len(consumed')])
                        /\ result' = Running
                     \/ pc' = "done" /\ result'.status = "err"
                ELSE pc' = "document" /\ UNCHANGED <<res, cur, result, addLog>>
          [] OTHER ->
                /\ pc' = "done"
                /\ result'.status = "err"
                /\ result'.err.pos = Len(consumed')

\* C17: the document-body state accepts the end of the document and start
\* elements only; every other event, an end element included, is an error and
\* none is skipped.
C17_DocumentBodyState == [][DocumentTurn]_vars

\* read_document has returned an error on an end element, a node being added.
C17_Witness ==
    /\ pc = "done"
    /\ result.status = "err"
    /\ consumed[Len(consumed)].type = "EndElement"
    /\ res.nodes # {}

\* -------------------------------------------------------------------- C18

InvalidValueFmts ==
    { "invalid digit found in string", "cannot parse integer from empty string",
      "invalid float literal", "cannot parse float from empty string",
      "invalid member type '{}'" }

\* The error err was raised on event e, by what it says.
RaisedOn(err, e) ==
    /\ err.fmt = "missing '{}' attribute" =>
          /\ e.type = "StartElement"
          /\ \E a \in Required(e.name) \ DOMAIN e.attrs : err.args = <<AttrStr(a)>>
    /\ err.fmt \in InvalidValueFmts =>
          /\ e.type = "StartElement"
          /\ \E a \in Required(e.name) \cap DOMAIN e.attrs :
                e.attrs[a] \in {S_abc, S_x, S_area}
    /\ err.fmt = "expected element '{}'" => (e.type = "StartElement" /\ e.name # "osm")
    /\ err.fmt = "expected element" => e.type \notin {"StartElement", "Err"}
    /\ err.fmt = "xml" => e.type = "Err"

\* C18: the error read_xml returns carries the position of the last event pulled,
\* and that event is the one at fault: the element lacking the attribute or
\* holding the invalid value, the unexpected event, the root of another name.
C18_ErrorPosition ==
    result.status = "err" =>
        /\ result.err.pos = Len(consumed)
        /\ RaisedOn(result.err, consumed[result.err.pos])

\* An attribute error on a child element, events having been pulled before it.
C18_Witness ==
    /\ result.status = "err"
    /\ result.err.fmt = "missing '{}' attribute"
    /\ result.err.pos >= 4
    /\ consumed[result.err.pos].name = "tag"

\* -------------------------------------------------------------------- C19

\* C19: in a document of node, way and relation elements, whenever read_document
\* is about to pull a top-level event, the events pulled so far leave the root
\* element open and nothing else: each entity reader that returned has pulled
\* the events of its element through its own end element.
C19_NestingDepth ==
    (pc = "document" /\ Document(consumed, ValidStarts \ {UnknownTop})) =>
        Depth(consumed, Len(consumed)) = 1

\* -------------------------------------------------------------------- C20

\* No event was pulled after the end of the document or an error of the tokenizer.
NoPullPastEnd ==
    \A i \in 1..(Len(consumed) - 1) : consumed[i].type \notin {"EndDocument", "Err"}

\* A step pulls one new event and keeps those pulled before.
PullsOne ==
    /\ Len(consumed') = Len(consumed) + 1
    /\ SubSeq(consumed', 1, Len(consumed)) = consumed

\* C20: read_xml finishes, every step of its loops pulls one new event, and it
\* never pulls again once the tokenizer has reached its end.
C20_Termination == <>(pc = "done") /\ []NoPullPastEnd /\ [][PullsOne]_vars

\* read_xml has returned after its document loop ran for two entities.
C20_Witness == pc = "done" /\ Len(addLog) >= 2 /\ Len(consumed) >= 7

====
